---- MODULE Spec2Model ----
(***************************************************************************)
(* Model of the GCP controller plugin of gate-gcp-controller               *)
(* (plugins/gcpcontroller/gcpcontroller.go).                               *)
(*                                                                         *)
(* Execution contexts: one goroutine per in-flight proxy event (Procs) and *)
(* one goroutine per fired time.AfterFunc callback (Timers).  Every        *)
(* blocking call (g.mu.Lock, client.Get, client.Start, client.Stop,        *)
(* op.Wait) ends a step, so every interleaving the Go scheduler allows     *)
(* between them is a behaviour of the model.  Time is a discrete clock in  *)
(* minutes; the GCP API and the reachability probe are the environment:    *)
(* their results are inputs of the steps.                                  *)
(***************************************************************************)
EXTENDS Integers, Sequences, FiniteSets, TLC

(* ------------------------------ bounds -------------------------------- *)

\* number of concurrent event-handler goroutines
NumProcs == 2
\* number of time.AfterFunc timers that can be outstanding at once
MaxTimers == 2
\* the clock runs from 1 to MaxTime minutes
MaxTime == 3
\* joins are delivered only while fewer than MaxPlayers players are counted
MaxPlayers == 2
\* the configured gcpController.idleTimeoutMinutes (Config is immutable after
\* loadConfig; the model runs one small configuration)
IdleTimeoutMinutes == 1
\* the configured gcpController.startupThresholdMinutes
StartupThresholdMinutes == 1

\* number of concurrent /whitelist command goroutines
NumCmds == 2

\* number of connection goroutines running beside the /whitelist commands
NumChecks == 1

\* number of concurrent /ping command goroutines
NumPings == 2

Procs == 1 .. NumProcs
Pings == 1 .. NumPings
Cmds == 1 .. NumCmds
Checks == 1 .. NumChecks
Timers == 1 .. MaxTimers
Times == 1 .. MaxTime

(* --------------------------- the environment -------------------------- *)

\* computepb instance status values the code distinguishes, and two others
Statuses == {"TERMINATED", "STOPPED", "RUNNING", "STAGING"}
\* result of client.Get: an error, or the instance's status
GetResults == Statuses \cup {"error"}
\* result of client.Start, client.Stop and op.Wait
CallResults == {"ok", "error"}

\* Config.ServerAddress (loadConfig rejects an empty one), the name of some
\* other registered server, and no server at all (a nil OriginalServer or
\* CurrentServer)
ServerAddress == "managed"
NoServer == ""
Servers == {ServerAddress, "other", NoServer}
\* Config.StartingMessage
StartingMessage == "starting"

\* the zero time.Time (lastStartTime before the first successful start)
ZeroTime == 0
\* a nil *time.Timer
NilTimer == 0
\* the unlocked mutex
Unlocked == <<"none", 0>>
ProcId(p) == <<"proc", p>>
TimerId(i) == <<"timer", i>>

\* the players' UUIDs (a player's name stands for its UUID), the whitelist's
\* Config.Operators and Config.KickMessage
UUIDs == {"u1", "u2"}
Operators == {"u1"}
KickMessage == "not whitelisted"
\* w.mu with no writer
NoWriter == 0
\* a command goroutine outside any command, and a goroutine with no event
IdleCmd == [st |-> "idle", cmd |-> "", uuid |-> "", source |-> ""]
\* a /ping goroutine outside the command
IdlePing == [st |-> "idle", player |-> ""]
NoEvent == [at |-> "none", player |-> "", original |-> "", allowed |-> TRUE]

VARIABLES
    now,            \* the clock (minutes)
    pc,             \* pc[p]: position of handler goroutine p
    mu,             \* holder of g.mu
    playerCount,    \* g.playerCount
    lastActivity,   \* g.lastActivity
    lastStartTime,  \* g.lastStartTime (ZeroTime: never set)
    isStarting,     \* g.isStarting
    shutdownTimer,  \* g.shutdownTimer (NilTimer, or a timer)
    timers,         \* the time.AfterFunc timers and their callbacks
    lastStartCall,  \* history: time of the latest client.Start call (0: none)
    ev,             \* history: the step just taken, its inputs and its answer
    enabled,        \* the whitelist's Config.Enabled
    entries,        \* w.entries: the UUIDs on the whitelist
    whitelistFile,  \* the UUIDs in the file at Config.WhitelistFile
    wmu,            \* holder of the write lock of w.mu
    wpc,            \* wpc[c]: position of command goroutine c
    event,          \* event[p]: the ServerPreConnectEvent fired on goroutine p
    returned,       \* history: the whitelist as the returned adds and removes left it
    plugin,         \* the controller plugin: its config.yml and how Plugin.Init ended
    cooldowns,      \* chatping's p.cooldowns: player -> time of use (ZeroTime: no entry)
    ppc,            \* ppc[q]: position of /ping command goroutine q
    current,        \* current[u]: the proxy's CurrentServer of player u (NoServer: none)
    inFlight        \* inFlight[u]: the server player u is connecting to (NoServer: none)

\* the proxy's view of the players
proxyvars == <<current, inFlight>>

\* the state of the chatping plugin
pvars == <<cooldowns, ppc>>

\* what the controller's handlers and callbacks leave alone: the state of the
\* whitelist plugin and of the event dispatch, and the outcome of Plugin.Init
wvars == <<enabled, entries, whitelistFile, wmu, wpc, event, returned, plugin,
           pvars, proxyvars>>

vars == <<now, pc, mu, playerCount, lastActivity, lastStartTime,
          isStarting, shutdownTimer, timers, lastStartCall, ev, wvars>>

\* the fields of gcpController guarded by g.mu
state == <<playerCount, lastActivity, lastStartTime, isStarting, shutdownTimer>>

FreeTimer == [st |-> "free", deadline |-> 0, cancelled |-> FALSE]

\* the step just taken: op names the step and id its goroutine; server and r
\* are its inputs (the event's server; the result of the probe or of the API
\* call that returned); res is its outcome, call the API call it issued,
\* denied and msg what the player was told
Ev(op, id, server, r, res, call, denied) ==
    [op |-> op, id |-> id, server |-> server, r |-> r, res |-> res,
     call |-> call, denied |-> denied,
     msg |-> IF denied THEN StartingMessage ELSE "", err |-> FALSE]

\* the settings loadConfig requires, and what config.yml can hold for each:
\* nothing, the empty string, or a value
RequiredKeys == {"projectId", "zone", "instanceName", "serverAddress"}
FileValues == {"missing", "", "set"}
ConfigFiles == [RequiredKeys -> FileValues]

\* the controller plugin before Plugin.Init, and after a Plugin.Init that
\* found a complete config.yml and created the API client
NotInitialised ==
    [status |-> "new", readable |-> TRUE,
     file |-> [k \in RequiredKeys |-> "set"], client |-> TRUE]
Initialised == [NotInitialised EXCEPT !.status = "running"]

\* the proxy when the plugins are initialised: no player is connected
ProxyInit ==
    /\ current = [u \in UUIDs |-> NoServer]
    /\ inFlight = [u \in UUIDs |-> NoServer]

\* the chatping plugin after Plugin.Init: the cooldowns map is empty
ChatPingInit ==
    /\ cooldowns = [u \in UUIDs |-> ZeroTime]
    /\ ppc = [q \in Pings |-> IdlePing]
    /\ ProxyInit

\* the whitelist plugin after Plugin.Init: the configuration loaded and the
\* entries read from the whitelist file
WhitelistInit(e, loaded) ==
    /\ enabled = e
    /\ entries = loaded
    /\ whitelistFile = loaded
    /\ wmu = NoWriter
    /\ wpc = [c \in Cmds |-> IdleCmd]
    /\ event = [p \in Procs |-> NoEvent]
    /\ returned = loaded

ControllerInit ==
    /\ plugin = Initialised
    /\ now = 1
    /\ pc = [p \in Procs |-> "idle"]
    /\ mu = Unlocked
    /\ playerCount = 0
    /\ lastActivity = 1
    /\ lastStartTime = ZeroTime
    /\ isStarting = FALSE
    /\ shutdownTimer = NilTimer
    /\ timers = [i \in Timers |-> FreeTimer]
    /\ lastStartCall = 0
    /\ ev = Ev("Init", Unlocked, "", "", "", "", FALSE)

\* the plugins initialised, the whitelist enabled (the default) and empty
Init == ControllerInit /\ WhitelistInit(TRUE, {}) /\ ChatPingInit

(* ------------------------------- time --------------------------------- *)

Tick ==
    /\ now < MaxTime
    /\ now' = now + 1
    /\ ev' = Ev("Tick", Unlocked, "", "", "", "", FALSE)
    /\ UNCHANGED <<pc, mu, state, timers, lastStartCall>>

(* ------------------------ onServerPreConnect -------------------------- *)

\* mutant of IsManaged: the server check left out
IsManagedAny(server) == TRUE

\* the server check of the three handlers
IsManaged(server) == server # NoServer /\ server = ServerAddress

\* mutant of PreConnectNext: the result of the probe ignored
PreConnectNextNoProbe(server, reachable) ==
    IF ~IsManaged(server) THEN "idle" ELSE "trystart"

\* where onServerPreConnect goes after the server check and the probe
PreConnectNext(server, reachable) ==
    IF ~IsManaged(server) THEN "idle"
    ELSE IF reachable THEN "idle"
    ELSE "trystart"

\* a connection attempt: the server check and, for the managed server,
\* isServerReachable (no lock is taken)
PreConnect(p, server, reachable) ==
    /\ pc[p] = "idle"
    /\ pc' = [pc EXCEPT ![p] = PreConnectNext(server, reachable)]
    /\ ev' = Ev("PreConnect", ProcId(p), server,
                IF ~IsManaged(server) THEN ""
                ELSE IF reachable THEN "reachable" ELSE "unreachable",
                PreConnectNext(server, reachable), "", FALSE)
    /\ UNCHANGED <<now, mu, state, timers, lastStartCall>>

(* --------------------------- tryStartServer --------------------------- *)

\* mutant of Throttled: the age of lastStartTime not compared
ThrottledForever(last, t, threshold) == last # ZeroTime

\* mutant of Throttled: the comparison the wrong way round
ThrottledInverted(last, t, threshold) ==
    /\ last # ZeroTime
    /\ t - last > threshold

\* the startup-threshold check: lastStartTime set and younger than the threshold
Throttled(last, t, threshold) ==
    /\ last # ZeroTime
    /\ t - last < threshold

\* mutant of IsStopped: the TERMINATED status forgotten
IsStoppedOnlyStopped(status) == status = "STOPPED"

\* mutant of IsStopped: started unless Running
IsStoppedUnlessRunning(status) == status # "RUNNING"

\* "only start if instance is stopped"
IsStopped(status) == status \in {"TERMINATED", "STOPPED"}

\* mutant of Denied: the player denied only when tryStartServer returned nil
DeniedOnSuccess(err) == ~err

\* onServerPreConnect after tryStartServer returned: e.Deny() and the kick
\* with StartingMessage, whether tryStartServer returned an error or nil
Denied(err) == TRUE

\* mutant of TryStartReturn: a return that leaves g.mu locked (no defer)
TryStartReturnLocked(p, r, res, err) ==
    /\ pc' = [pc EXCEPT ![p] = "idle"]
    /\ mu' = IF mu = ProcId(p) THEN mu ELSE Unlocked
    /\ ev' = [Ev("TryStartReturn", ProcId(p), "", r, res, "", Denied(err))
                EXCEPT !.err = err]

\* tryStartServer returns (its deferred Unlock runs) and onServerPreConnect
\* answers the player
TryStartReturn(p, r, res, err) ==
    /\ pc' = [pc EXCEPT ![p] = "idle"]
    /\ mu' = Unlocked
    /\ ev' = [Ev("TryStartReturn", ProcId(p), "", r, res, "", Denied(err))
                EXCEPT !.err = err]

\* mutant of TryStartLock: the threshold check made without waiting for g.mu
TryStartLockNoWait(p) ==
    /\ pc[p] = "trystart"
    /\ IF Throttled(lastStartTime, now, StartupThresholdMinutes)
       THEN /\ pc' = [pc EXCEPT ![p] = "idle"]
            /\ ev' = Ev("TryStartReturn", ProcId(p), "", "", "throttled", "", TRUE)
            /\ UNCHANGED mu
       ELSE /\ pc' = [pc EXCEPT ![p] = "get"]
            /\ mu' = ProcId(p)
            /\ ev' = Ev("TryStartLock", ProcId(p), "", "", "passed", "Get", FALSE)
    /\ UNCHANGED <<now, state, timers, lastStartCall>>

\* g.mu.Lock() and the threshold check; past it, client.Get is called
TryStartLock(p) ==
    /\ pc[p] = "trystart"
    /\ mu = Unlocked
    /\ IF Throttled(lastStartTime, now, StartupThresholdMinutes)
       THEN TryStartReturn(p, "", "throttled", FALSE)
       ELSE /\ pc' = [pc EXCEPT ![p] = "get"]
            /\ mu' = ProcId(p)
            /\ ev' = Ev("TryStartLock", ProcId(p), "", "", "passed", "Get", FALSE)
    /\ UNCHANGED <<now, state, timers, lastStartCall>>

\* client.Get returns r; a stopped instance is started: client.Start is called
TryStartGet(p, r) ==
    /\ pc[p] = "get"
    /\ IF r = "error"
       THEN TryStartReturn(p, r, "get_error", TRUE) /\ UNCHANGED lastStartCall
       ELSE IF ~IsStopped(r)
       THEN TryStartReturn(p, r, "not_stopped", FALSE) /\ UNCHANGED lastStartCall
       ELSE /\ pc' = [pc EXCEPT ![p] = "start"]
            /\ lastStartCall' = now
            /\ ev' = Ev("TryStartGet", ProcId(p), "", r, "stopped", "Start", FALSE)
            /\ UNCHANGED mu
    /\ UNCHANGED <<now, state, timers>>

\* client.Start returns r; on success op.Wait is called
TryStartStart(p, r) ==
    /\ pc[p] = "start"
    /\ IF r = "error"
       THEN TryStartReturn(p, r, "start_error", TRUE)
       ELSE /\ pc' = [pc EXCEPT ![p] = "wait"]
            /\ ev' = Ev("TryStartStart", ProcId(p), "", r, "accepted", "Wait", FALSE)
            /\ UNCHANGED mu
    /\ UNCHANGED <<now, state, timers, lastStartCall>>

\* mutant of TryStartWait: the start recorded before the wait's error check
TryStartWaitRecordedFirst(p, r) ==
    /\ pc[p] = "wait"
    /\ lastStartTime' = now
    /\ isStarting' = TRUE
    /\ IF r = "error"
       THEN TryStartReturn(p, r, "wait_error", TRUE)
       ELSE TryStartReturn(p, r, "started", FALSE)
    /\ UNCHANGED <<now, playerCount, lastActivity, shutdownTimer, timers,
                   lastStartCall>>

\* op.Wait returns r; on success the start is recorded
TryStartWait(p, r) ==
    /\ pc[p] = "wait"
    /\ IF r = "error"
       THEN /\ TryStartReturn(p, r, "wait_error", TRUE)
            /\ UNCHANGED <<lastStartTime, isStarting>>
       ELSE /\ lastStartTime' = now
            /\ isStarting' = TRUE
            /\ TryStartReturn(p, r, "started", FALSE)
    /\ UNCHANGED <<now, playerCount, lastActivity, shutdownTimer, timers,
                   lastStartCall>>

(* ------------------------------ timers -------------------------------- *)

FreeSlots(tm) == {i \in Timers : tm[i].st = "free"}
NewTimer(tm) == CHOOSE i \in FreeSlots(tm) : \A j \in FreeSlots(tm) : i <= j

\* mutant of StopTimer: the timer marked but left running
StopTimerMarkOnly(tm, i) ==
    IF i = NilTimer THEN tm ELSE [tm EXCEPT ![i].cancelled = TRUE]

\* t.Stop() on timer i, whose reference is then dropped: an armed timer never
\* fires; a timer whose callback has started is not stopped (Stop returns
\* false) and its callback runs on
StopTimer(tm, i) ==
    IF i = NilTimer THEN tm
    ELSE IF tm[i].st \in {"armed", "done"} THEN [tm EXCEPT ![i] = FreeTimer]
    ELSE [tm EXCEPT ![i].cancelled = TRUE]

\* time.AfterFunc(timeout, ...) at time t
ArmedTimer(t, timeout) ==
    [st |-> "armed", deadline |-> t + timeout, cancelled |-> FALSE]

\* mutant of ScheduleShutdown: the old timer not stopped
ScheduleShutdownNoStop ==
    /\ FreeSlots(timers) # {}
    /\ timers' = [timers EXCEPT
                    ![NewTimer(timers)] = ArmedTimer(now, IdleTimeoutMinutes)]
    /\ shutdownTimer' = NewTimer(timers)

\* scheduleShutdown (called with g.mu held): stop the old timer, arm a new
\* one.  At most MaxTimers timers are outstanding: the step waits for a slot.
ScheduleShutdown ==
    LET stopped == StopTimer(timers, shutdownTimer)
        i == NewTimer(stopped)
    IN  /\ FreeSlots(stopped) # {}
        /\ timers' = [stopped EXCEPT
                        ![i] = ArmedTimer(now, IdleTimeoutMinutes)]
        /\ shutdownTimer' = i

(* ------------------------ onServerPostConnect ------------------------- *)

JoinsWaiting == Cardinality({q \in Procs : pc[q] = "join"})

\* a player has connected to `server`: the server check, then g.mu.Lock()
PostConnect(p, server) ==
    /\ pc[p] = "idle"
    /\ IF IsManaged(server)
       THEN /\ playerCount + JoinsWaiting < MaxPlayers
            /\ pc' = [pc EXCEPT ![p] = "join"]
       ELSE UNCHANGED pc
    /\ ev' = Ev("PostConnect", ProcId(p), server, "",
                IF IsManaged(server) THEN "lock" ELSE "ignored", "", FALSE)
    /\ UNCHANGED <<now, mu, state, timers, lastStartCall>>

\* mutant of CancelOnJoin: the reference dropped without Stop()
CancelOnJoinLost(tm, i) == tm

\* "cancel shutdown timer if it's running": shutdownTimer.Stop()
CancelOnJoin(tm, i) == StopTimer(tm, i)

\* mutant of Join: the body of onServerPostConnect without g.mu.Lock()
JoinUnlocked(p) ==
    /\ pc[p] = "join"
    /\ playerCount' = playerCount + 1
    /\ lastActivity' = now
    /\ timers' = StopTimer(timers, shutdownTimer)
    /\ shutdownTimer' = NilTimer
    /\ pc' = [pc EXCEPT ![p] = "idle"]
    /\ ev' = Ev("Join", ProcId(p), "", "", "unlocked", "", FALSE)
    /\ UNCHANGED <<now, mu, lastStartTime, isStarting, lastStartCall>>

\* the body of onServerPostConnect, under g.mu
Join(p) ==
    /\ pc[p] = "join"
    /\ mu = Unlocked
    /\ playerCount' = playerCount + 1
    /\ lastActivity' = now
    /\ timers' = CancelOnJoin(timers, shutdownTimer)
    /\ shutdownTimer' = NilTimer
    /\ pc' = [pc EXCEPT ![p] = "idle"]
    /\ ev' = Ev("Join", ProcId(p), "",
                IF shutdownTimer # NilTimer /\ timers[shutdownTimer].st # "done"
                   /\ now > timers[shutdownTimer].deadline
                THEN "expired" ELSE "",
                IF shutdownTimer = NilTimer THEN "no_timer"
                ELSE timers[shutdownTimer].st, "", FALSE)
    /\ UNCHANGED <<now, mu, lastStartTime, isStarting, lastStartCall>>

(* --------------------------- onDisconnect ----------------------------- *)

\* mutant of ClampDec: the clamp left out
Dec(n) == n - 1

\* g.playerCount--, clamped at 0
ClampDec(n) == IF n - 1 < 0 THEN 0 ELSE n - 1

\* a player whose current server is `server` disconnects: the server check,
\* then g.mu.Lock()
Disconnect(p, server) ==
    /\ pc[p] = "idle"
    /\ pc' = [pc EXCEPT ![p] = IF IsManaged(server) THEN "disc" ELSE "idle"]
    /\ ev' = Ev("Disconnect", ProcId(p), server, "",
                IF IsManaged(server) THEN "lock" ELSE "ignored", "", FALSE)
    /\ UNCHANGED <<now, mu, state, timers, lastStartCall>>

\* the body of onDisconnect, under g.mu
Leave(p) ==
    /\ pc[p] = "disc"
    /\ mu = Unlocked
    /\ playerCount' = ClampDec(playerCount)
    /\ lastActivity' = now
    /\ IF playerCount' = 0
       THEN ScheduleShutdown
       ELSE UNCHANGED <<timers, shutdownTimer>>
    /\ pc' = [pc EXCEPT ![p] = "idle"]
    /\ ev' = Ev("Leave", ProcId(p), "", "",
                IF playerCount - 1 < 0 THEN "clamped" ELSE "decremented",
                "", FALSE)
    /\ UNCHANGED <<now, mu, lastStartTime, isStarting, lastStartCall>>

(* ---------------- the idle timer's callback, stopServer ---------------- *)

\* the timer's duration has elapsed: its callback starts in its own goroutine
TimerFire(i) ==
    /\ timers[i].st = "armed"
    /\ now >= timers[i].deadline
    /\ timers' = [timers EXCEPT ![i].st = "fired"]
    /\ ev' = Ev("TimerFire", TimerId(i), "", "", "fired", "", FALSE)
    /\ UNCHANGED <<now, pc, mu, state, lastStartCall>>

\* mutant of PlayersOnline: the re-check left out
PlayersOnlineUnchecked(n) == FALSE

\* mutant of PlayersOnline: the re-check off by one
PlayersOnlineOrNone(n) == n >= 0

\* "double-check no players have joined"
PlayersOnline(n) == n > 0

\* the callback returns (its deferred Unlock runs).  g.shutdownTimer is not
\* cleared by the callback: a finished timer it still refers to stays "done"
TimerReturn(i, r, res) ==
    /\ timers' = [timers EXCEPT ![i] =
                    IF shutdownTimer = i
                    THEN [st |-> "done", deadline |-> 0, cancelled |-> FALSE]
                    ELSE FreeTimer]
    /\ mu' = Unlocked
    /\ ev' = Ev("TimerReturn", TimerId(i), "", r, res, "", FALSE)

\* the callback's g.mu.Lock() and its re-check; past it stopServer calls
\* client.Get
TimerLock(i) ==
    /\ timers[i].st = "fired"
    /\ mu = Unlocked
    /\ IF PlayersOnline(playerCount)
       THEN TimerReturn(i, "", "players_online")
       ELSE /\ timers' = [timers EXCEPT ![i].st = "get"]
            /\ mu' = TimerId(i)
            /\ ev' = Ev("TimerLock", TimerId(i), "", "", "no_players", "Get", FALSE)
    /\ UNCHANGED <<now, pc, state, lastStartCall>>

\* mutant of IsRunning: stopped unless already stopped
IsRunningUnlessStopped(status) == status \notin {"TERMINATED", "STOPPED"}

\* "only stop if instance is running"
IsRunning(status) == status = "RUNNING"

\* stopServer: client.Get returns r; a running instance is stopped
StopServerGet(i, r) ==
    /\ timers[i].st = "get"
    /\ IF r = "error"
       THEN TimerReturn(i, r, "get_error")
       ELSE IF ~IsRunning(r)
       THEN TimerReturn(i, r, "not_running")
       ELSE /\ timers' = [timers EXCEPT ![i].st = "stop"]
            /\ ev' = Ev("StopServerGet", TimerId(i), "", r, "running", "Stop", FALSE)
            /\ UNCHANGED mu
    /\ UNCHANGED <<now, pc, state, lastStartCall>>

\* stopServer: client.Stop returns r; on success op.Wait is called
StopServerStop(i, r) ==
    /\ timers[i].st = "stop"
    /\ IF r = "error"
       THEN TimerReturn(i, r, "stop_error")
       ELSE /\ timers' = [timers EXCEPT ![i].st = "wait"]
            /\ ev' = Ev("StopServerStop", TimerId(i), "", r, "accepted", "Wait", FALSE)
            /\ UNCHANGED mu
    /\ UNCHANGED <<now, pc, state, lastStartCall>>

\* stopServer: op.Wait returns r
StopServerWait(i, r) ==
    /\ timers[i].st = "wait"
    /\ TimerReturn(i, r, IF r = "error" THEN "wait_error" ELSE "stopped")
    /\ UNCHANGED <<now, pc, state, lastStartCall>>

(* -------------------------- the specification -------------------------- *)

\* the steps of the GCP controller; the whitelist is not involved
Next ==
    \/ Tick /\ UNCHANGED wvars
    \/ (\E p \in Procs, s \in Servers, r \in BOOLEAN : PreConnect(p, s, r)) /\ UNCHANGED wvars
    \/ (\E p \in Procs : TryStartLock(p)) /\ UNCHANGED wvars
    \/ (\E p \in Procs, r \in GetResults : TryStartGet(p, r)) /\ UNCHANGED wvars
    \/ (\E p \in Procs, r \in CallResults : TryStartStart(p, r)) /\ UNCHANGED wvars
    \/ (\E p \in Procs, r \in CallResults : TryStartWait(p, r)) /\ UNCHANGED wvars
    \/ (\E p \in Procs, s \in Servers : PostConnect(p, s)) /\ UNCHANGED wvars
    \/ (\E p \in Procs : Join(p)) /\ UNCHANGED wvars
    \/ (\E p \in Procs, s \in Servers : Disconnect(p, s)) /\ UNCHANGED wvars
    \/ (\E p \in Procs : Leave(p)) /\ UNCHANGED wvars
    \/ (\E i \in Timers : TimerFire(i)) /\ UNCHANGED wvars
    \/ (\E i \in Timers : TimerLock(i)) /\ UNCHANGED wvars
    \/ (\E i \in Timers, r \in GetResults : StopServerGet(i, r)) /\ UNCHANGED wvars
    \/ (\E i \in Timers, r \in CallResults : StopServerStop(i, r)) /\ UNCHANGED wvars
    \/ (\E i \in Timers, r \in CallResults : StopServerWait(i, r)) /\ UNCHANGED wvars

Spec == Init /\ [][Next]_vars

\* the API call outstanding returns (all API calls are made with g.mu held, so
\* at most one is outstanding)
ApiCallReturns ==
    \/ \E p \in Procs, r \in GetResults : TryStartGet(p, r)
    \/ \E p \in Procs, r \in CallResults : TryStartStart(p, r)
    \/ \E p \in Procs, r \in CallResults : TryStartWait(p, r)
    \/ \E i \in Timers, r \in GetResults : StopServerGet(i, r)
    \/ \E i \in Timers, r \in CallResults : StopServerStop(i, r)
    \/ \E i \in Timers, r \in CallResults : StopServerWait(i, r)

\* What the Go runtime and the API client guarantee about the progress of a
\* timer's callback: the clock advances; an expired timer's callback is
\* started; a callback waiting in g.mu.Lock() gets the lock (sync.Mutex hands
\* the lock to a starving waiter), the lock being released again and again;
\* every API call returns (each runs under a context with a timeout).
\* Nothing is assumed about the arrival of events, about the handlers'
\* turns at the lock or about the results of the calls.
Fairness ==
    /\ WF_vars(Tick /\ UNCHANGED wvars)
    /\ WF_vars(ApiCallReturns /\ UNCHANGED wvars)
    /\ \A i \in Timers :
        /\ WF_vars(TimerFire(i) /\ UNCHANGED wvars)
        /\ SF_vars(TimerLock(i) /\ UNCHANGED wvars)

FairSpec == Spec /\ Fairness

\* a handler waiting for g.mu takes it
HandlerLocks ==
    \E p \in Procs : TryStartLock(p) \/ Join(p) \/ Leave(p)

\* connection attempts to the managed server keep arriving and find it
\* unreachable, handlers waiting for g.mu get it in the end, and client.Get
\* keeps answering that the instance is TERMINATED
AttemptsKeepArriving ==
    /\ SF_vars((\E p \in Procs : PreConnect(p, ServerAddress, FALSE))
                    /\ UNCHANGED wvars)
    /\ SF_vars(HandlerLocks /\ UNCHANGED wvars)
    /\ SF_vars((\E p \in Procs : TryStartGet(p, "TERMINATED"))
                    /\ UNCHANGED wvars)

StartFairSpec == FairSpec /\ AttemptsKeepArriving

TypeOK ==
    /\ now \in Times
    /\ pc \in [Procs -> {"idle", "trystart", "get", "start", "wait", "join", "disc"}]
    /\ mu \in {Unlocked} \cup {ProcId(p) : p \in Procs} \cup {TimerId(i) : i \in Timers}
    /\ playerCount \in Int
    /\ lastActivity \in Times
    /\ lastStartTime \in {ZeroTime} \cup Times
    /\ isStarting \in BOOLEAN
    /\ shutdownTimer \in {NilTimer} \cup Timers
    /\ \A i \in Timers : timers[i].st \in
            {"free", "armed", "fired", "get", "stop", "wait", "done"}
    /\ lastStartCall \in {0} \cup Times

(* ------------------- Plugin.Init of the controller --------------------- *)

\* v.IsSet(key), then v.GetString(key): a missing key leaves the field empty
LoadField(v) == IF v = "missing" THEN "" ELSE v

\* mutant of LoadConfigFails: the serverAddress check forgotten
LoadConfigFailsAddressUnchecked(readable, file) ==
    \/ ~readable
    \/ \E k \in RequiredKeys \ {"serverAddress"} : LoadField(file[k]) = ""

\* loadConfig returns an error: config.yml cannot be read, or a required
\* field is empty after loading
LoadConfigFails(readable, file) ==
    \/ ~readable
    \/ \E k \in RequiredKeys : LoadField(file[k]) = ""

\* Plugin.Init with the given config.yml (readable or not) and outcome of
\* compute.NewInstancesRESTClient: on an error it returns before the
\* controller is created and its handlers are subscribed
PluginInit(readable, file, client) ==
    /\ plugin.status = "new"
    /\ plugin' = [status |-> IF LoadConfigFails(readable, file) \/ ~client
                             THEN "failed" ELSE "running",
                  readable |-> readable, file |-> file, client |-> client]
    /\ ev' = Ev("PluginInit", Unlocked, "", "",
                IF LoadConfigFails(readable, file) THEN "config_error"
                ELSE IF ~client THEN "client_error" ELSE "subscribed",
                "", FALSE)
    /\ UNCHANGED <<now, pc, mu, state, timers, lastStartCall, enabled, entries,
                   whitelistFile, wmu, wpc, event, returned, pvars,
                   proxyvars>>

\* the proxy before the controller plugin is initialised
StartupInit ==
    /\ plugin = NotInitialised
    /\ now = 1
    /\ pc = [p \in Procs |-> "idle"]
    /\ mu = Unlocked
    /\ playerCount = 0
    /\ lastActivity = 1
    /\ lastStartTime = ZeroTime
    /\ isStarting = FALSE
    /\ shutdownTimer = NilTimer
    /\ timers = [i \in Timers |-> FreeTimer]
    /\ lastStartCall = 0
    /\ ev = Ev("Start", Unlocked, "", "", "", "", FALSE)
    /\ WhitelistInit(TRUE, {})
    /\ ChatPingInit

\* Plugin.Init, and then the controller's steps: its handlers are called and
\* its timers exist only once Plugin.Init has subscribed them
StartupNext ==
    \/ \E readable \in BOOLEAN, file \in ConfigFiles, client \in BOOLEAN :
            PluginInit(readable, file, client)
    \/ plugin.status = "running" /\ Next

StartupSpec == StartupInit /\ [][StartupNext]_vars

(* ===================== the whitelist plugin ============================ *)

\* the controller's variables
cvars == <<now, pc, mu, state, timers, lastStartCall, plugin, pvars, proxyvars>>
\* the whitelist manager's variables
mvars == <<enabled, entries, whitelistFile, wmu, wpc, returned>>

CmdId(c) == <<"cmd", c>>
\* who can issue a command: a player, or the console
Sources == UUIDs \cup {"console"}

\* a step of the whitelist plugin or of the event dispatch: player is the
\* connecting player or the command's source, target the command's argument
WlEv(op, id, player, target, res, denied) ==
    [op |-> op, id |-> id, player |-> player, target |-> target,
     server |-> "", r |-> "", res |-> res, call |-> "", denied |-> denied,
     msg |-> IF denied THEN KickMessage ELSE "", shown |-> {}, err |-> FALSE]

(* ------------------- the ServerPreConnectEvent ------------------------ *)

\* the proxy fires a ServerPreConnectEvent for `player` connecting to
\* `server` on goroutine p; the event manager calls the subscribers one after
\* the other in the order of their priorities: the whitelist's onPreConnect
\* (100), then the controller's onServerPreConnect (0)
FirePreConnect(p, player, server) ==
    /\ pc[p] = "idle"
    /\ event[p] = NoEvent
    /\ event' = [event EXCEPT ![p] =
                    [at |-> "whitelist", player |-> player,
                     original |-> server, allowed |-> TRUE]]
    /\ ev' = [WlEv("FirePreConnect", ProcId(p), player, "", "fired", FALSE)
                EXCEPT !.server = server]
    /\ UNCHANGED <<cvars, mvars>>

\* isWhitelisted: the lookup in w.entries
IsWhitelisted(set, uuid) == uuid \in set

\* mutant of Blocked: Config.Enabled not looked at
BlockedAlways(en, set, uuid) == ~IsWhitelisted(set, uuid)

\* onPreConnect blocks the player: the whitelist is enabled and the player is
\* not whitelisted
Blocked(en, set, uuid) == en /\ ~IsWhitelisted(set, uuid)

\* the whitelist's onPreConnect (isWhitelisted takes the read lock of w.mu):
\* a blocked player's event is denied, e.Deny(), and the player kicked with
\* KickMessage; the handler returns and the event goes on to the controller
OnPreConnect(p) ==
    /\ event[p].at = "whitelist"
    /\ enabled => wmu = NoWriter
    /\ LET player == event[p].player
           deny == Blocked(enabled, entries, player)
       IN  /\ event' = [event EXCEPT ![p].at = "controller",
                                     ![p].allowed = ~deny]
           /\ ev' = WlEv("OnPreConnect", ProcId(p), player, "",
                         IF deny THEN "blocked" ELSE "passed", deny)
    /\ UNCHANGED <<cvars, mvars>>

\* the event of goroutine p once its handler has taken a step: gone when the
\* handler has returned
EventAfter(p) ==
    [event EXCEPT ![p] = IF pc'[p] = "idle" THEN NoEvent
                         ELSE [@ EXCEPT !.at = "trystart"]]

\* the event manager calls the controller's onServerPreConnect, whatever the
\* whitelist did with the event: e.Deny() leaves e.OriginalServer() as it
\* was, and onServerPreConnect does not look at e.Allowed()
DispatchToController(p, reachable) ==
    /\ event[p].at = "controller"
    /\ PreConnect(p, event[p].original, reachable)
    /\ event' = EventAfter(p)
    /\ UNCHANGED <<mvars, plugin, pvars, proxyvars>>

\* a step of tryStartServer of the attempt dispatched on goroutine p
DispatchedTryStart(p) ==
    /\ \/ TryStartLock(p)
       \/ \E r \in GetResults : TryStartGet(p, r)
       \/ \E r \in CallResults : TryStartStart(p, r)
       \/ \E r \in CallResults : TryStartWait(p, r)
    /\ event' = EventAfter(p)
    /\ UNCHANGED <<mvars, plugin, pvars, proxyvars>>

(* ------------------------ /whitelist add, remove ---------------------- *)

\* mutant of IsOperator: every player is an operator
IsOperatorAlways(uuid) == TRUE

\* isOperator
IsOperator(uuid) == uuid \in Operators

\* the checks of a /whitelist command on its source
SourceCheck(source) ==
    IF source \notin UUIDs THEN "not_player"
    ELSE IF ~IsOperator(source) THEN "not_permitted"
    ELSE "ok"

\* a command returns with a message to its source
CmdReturn(c, op, source, target, res) ==
    /\ wpc' = [wpc EXCEPT ![c] = IdleCmd]
    /\ ev' = WlEv(op, CmdId(c), source, target, res, FALSE)

\* /whitelist add <target> by source: the source and operator checks, then
\* the target's UUID is looked up (among the online players, else with the
\* Mojang API; found: the lookup succeeded), then w.add is called
WhitelistAddCommand(c, source, target, found) ==
    /\ wpc[c] = IdleCmd
    /\ IF SourceCheck(source) # "ok"
       THEN CmdReturn(c, "WhitelistAddCommand", source, target, SourceCheck(source))
       ELSE IF ~found
       THEN CmdReturn(c, "WhitelistAddCommand", source, target, "lookup_failed")
       ELSE /\ wpc' = [wpc EXCEPT ![c] = [st |-> "lock", cmd |-> "add", uuid |-> target,
                                             source |-> source]]
            /\ ev' = WlEv("WhitelistAddCommand", CmdId(c), source, target, "add", FALSE)
    /\ UNCHANGED <<cvars, enabled, entries, whitelistFile, wmu, event, returned>>

\* /whitelist remove <target> by source: the source and operator checks
WhitelistRemoveCommand(c, source, target) ==
    /\ wpc[c] = IdleCmd
    /\ IF SourceCheck(source) # "ok"
       THEN CmdReturn(c, "WhitelistRemoveCommand", source, target, SourceCheck(source))
       ELSE /\ wpc' = [wpc EXCEPT ![c] = [st |-> "find", cmd |-> "remove", uuid |-> target,
                                             source |-> source]]
            /\ ev' = WlEv("WhitelistRemoveCommand", CmdId(c), source, target, "find", FALSE)
    /\ UNCHANGED <<cvars, enabled, entries, whitelistFile, wmu, event, returned>>

\* /whitelist remove: the target is searched in w.entries under the read lock
\* of w.mu; found, w.remove is called
RemoveFind(c) ==
    /\ wpc[c].st = "find"
    /\ wmu = NoWriter
    /\ IF wpc[c].uuid \in entries
       THEN /\ wpc' = [wpc EXCEPT ![c].st = "lock"]
            /\ ev' = WlEv("RemoveFind", CmdId(c), wpc[c].source, wpc[c].uuid,
                          "remove", FALSE)
       ELSE CmdReturn(c, "RemoveFind", wpc[c].source, wpc[c].uuid,
                      "not_in_whitelist")
    /\ UNCHANGED <<cvars, enabled, entries, whitelistFile, wmu, event, returned>>

\* /whitelist list by source: the source and operator checks, then w.list()
\* copies the entries under the read lock of w.mu and the command sends them
\* to its source
WhitelistListCommand(c, source) ==
    /\ wpc[c] = IdleCmd
    /\ IF SourceCheck(source) # "ok"
       THEN CmdReturn(c, "WhitelistListCommand", source, "", SourceCheck(source))
       ELSE /\ wmu = NoWriter
            /\ wpc' = wpc
            /\ ev' = [WlEv("WhitelistListCommand", CmdId(c), source, "",
                            IF entries = {} THEN "empty" ELSE "listed", FALSE)
                        EXCEPT !.shown = entries]
    /\ UNCHANGED <<cvars, enabled, entries, whitelistFile, wmu, event, returned>>

\* w.entries after the map update of w.add or w.remove
Updated(set, cmd, uuid) ==
    IF cmd = "add" THEN set \cup {uuid} ELSE set \ {uuid}

\* w.add and w.remove: w.mu.Lock() and the update of w.entries; w.save is
\* called with the lock held
UpdateLock(c) ==
    /\ wpc[c].st = "lock"
    /\ wmu = NoWriter
    /\ wmu' = c
    /\ entries' = Updated(entries, wpc[c].cmd, wpc[c].uuid)
    /\ wpc' = [wpc EXCEPT ![c].st = "save"]
    /\ ev' = WlEv("UpdateLock", CmdId(c), wpc[c].source, wpc[c].uuid,
                  wpc[c].cmd, FALSE)
    /\ UNCHANGED <<cvars, enabled, whitelistFile, event, returned>>

\* w.save returns r (os.WriteFile wrote the file, or failed), the deferred
\* Unlock runs, w.add or w.remove returns and the command answers its source
Save(c, r) ==
    /\ wpc[c].st = "save"
    /\ whitelistFile' = IF r = "ok" THEN entries ELSE whitelistFile
    /\ wmu' = NoWriter
    /\ returned' = Updated(returned, wpc[c].cmd, wpc[c].uuid)
    /\ CmdReturn(c, "Save", wpc[c].source, wpc[c].uuid,
                 IF r = "ok" THEN "saved" ELSE "save_error")
    /\ UNCHANGED <<cvars, enabled, entries, event>>

(* ------------- the whitelist under connection attempts ----------------- *)

\* the whitelist plugin initialised with any configuration and whitelist file
WhitelistAnyInit ==
    /\ ControllerInit
    /\ \E e \in BOOLEAN, loaded \in SUBSET UUIDs : WhitelistInit(e, loaded)
    /\ ChatPingInit

\* connection attempts to servers the controller does not manage, and
\* /whitelist commands
WhitelistNext ==
    \/ \E p \in Checks, u \in UUIDs : FirePreConnect(p, u, "other")
    \/ \E p \in Checks : OnPreConnect(p)
    \/ \E p \in Checks, r \in BOOLEAN : DispatchToController(p, r)
    \/ \E c \in Cmds, src \in Sources, u \in UUIDs, f \in BOOLEAN :
            WhitelistAddCommand(c, src, u, f)
    \/ \E c \in Cmds, src \in Sources, u \in UUIDs :
            WhitelistRemoveCommand(c, src, u)
    \/ \E c \in Cmds, src \in Sources : WhitelistListCommand(c, src)
    \/ \E c \in Cmds : RemoveFind(c)
    \/ \E c \in Cmds : UpdateLock(c)
    \/ \E c \in Cmds, r \in CallResults : Save(c, r)

WhitelistSpec == WhitelistAnyInit /\ [][WhitelistNext]_vars

(* ---------- connection attempts through both plugins ------------------- *)

\* connection attempts handled by the whitelist and then by the controller
GateNext ==
    \/ Tick /\ UNCHANGED wvars
    \/ \E p \in Procs, u \in UUIDs, s \in Servers : FirePreConnect(p, u, s)
    \/ \E p \in Procs : OnPreConnect(p)
    \/ \E p \in Procs, r \in BOOLEAN : DispatchToController(p, r)
    \/ \E p \in Procs : DispatchedTryStart(p)

GateSpec == WhitelistAnyInit /\ [][GateNext]_vars

(* ======================== the chatping plugin ========================== *)

\* cooldownDuration, 30 seconds, in ticks of the clock: in PingSpec a tick of
\* the clock stands for 30 seconds
CooldownDuration == 1

PingId(q) == <<"ping", q>>

\* a step of the /ping command: player is its source, r the cooldowns entry
\* it read, res its outcome
PingEv(op, q, player, r, res) ==
    [op |-> op, id |-> PingId(q), player |-> player, target |-> "",
     server |-> "", r |-> r, res |-> res, call |-> "", denied |-> FALSE,
     msg |-> "", shown |-> {}, err |-> FALSE]

\* the cooldown check: the player has an entry and less than cooldownDuration
\* has elapsed since
OnCooldown(exists, lastUsed, t) == exists /\ t - lastUsed < CooldownDuration

\* /ping by source: a source that is not a player is told so; lastUsed is read
\* under the read lock of p.mu, which is released before the check; on
\* cooldown the player is told to wait, otherwise the command goes on
PingCommand(q, source) ==
    /\ ppc[q] = IdlePing
    /\ LET lastUsed == cooldowns[source]
       IN  IF source \notin UUIDs
           THEN /\ ppc' = ppc
                /\ ev' = PingEv("PingCommand", q, source, ZeroTime, "not_player")
           ELSE IF OnCooldown(lastUsed # ZeroTime, lastUsed, now)
           THEN /\ ppc' = ppc
                /\ ev' = PingEv("PingCommand", q, source, lastUsed, "cooldown")
           ELSE /\ ppc' = [ppc EXCEPT ![q] = [st |-> "update", player |-> source]]
                /\ ev' = PingEv("PingCommand", q, source, lastUsed, "passed")
    /\ UNCHANGED <<now, pc, mu, state, timers, lastStartCall, plugin, mvars,
                   event, cooldowns, proxyvars>>

\* /ping past the check: p.cooldowns[playerID] = time.Now() under the write
\* lock of p.mu, then the ping result is sent to the player
PingUpdate(q) ==
    /\ ppc[q].st = "update"
    /\ cooldowns' = [cooldowns EXCEPT ![ppc[q].player] = now]
    /\ ppc' = [ppc EXCEPT ![q] = IdlePing]
    /\ ev' = PingEv("PingUpdate", q, ppc[q].player, cooldowns[ppc[q].player],
                    "ping_result")
    /\ UNCHANGED <<now, pc, mu, state, timers, lastStartCall, plugin, mvars,
                   event, proxyvars>>

\* /ping commands of players and of the console, on concurrent goroutines
PingNext ==
    \/ Tick /\ UNCHANGED wvars
    \/ \E q \in Pings, src \in Sources : PingCommand(q, src)
    \/ \E q \in Pings : PingUpdate(q)

PingSpec == Init /\ [][PingNext]_vars

(* ================== players joining and leaving servers ================ *)

\* player u connects to `server` (from no server, or switching from the
\* server they are on): the proxy sets the player's current server and fires
\* a ServerPostConnectEvent, handled by onServerPostConnect on goroutine p
ConnectTo(p, u, server) ==
    /\ server # NoServer
    /\ current[u] # server
    /\ current' = [current EXCEPT ![u] = server]
    /\ PostConnect(p, server)
    /\ UNCHANGED <<mvars, event, plugin, pvars, inFlight>>

\* player u, connected to a server, disconnects from the proxy: a
\* DisconnectEvent, handled by onDisconnect on goroutine p, which reads the
\* player's (last) current server
DisconnectFrom(p, u) ==
    /\ current[u] # NoServer
    /\ current' = [current EXCEPT ![u] = NoServer]
    /\ Disconnect(p, current[u])
    /\ UNCHANGED <<mvars, event, plugin, pvars, inFlight>>

\* the players' joins, switches and disconnects and the handlers' bodies
PlayersNext ==
    \/ \E p \in Procs, u \in UUIDs, s \in Servers : ConnectTo(p, u, s)
    \/ \E p \in Procs, u \in UUIDs : DisconnectFrom(p, u)
    \/ (\E p \in Procs : Join(p)) /\ UNCHANGED wvars
    \/ (\E p \in Procs : Leave(p)) /\ UNCHANGED wvars
    \/ Tick /\ UNCHANGED wvars

PlayersSpec == Init /\ [][PlayersNext]_vars

(* ------------- a connection, from the attempt to the join -------------- *)

\* the players whose connections ConnectSpec follows
Connecting == {"u1"}

\* player u, connected to no server, asks for the managed server: the
\* ServerPreConnectEvent is handled by onServerPreConnect on goroutine p; when
\* the probe finds the server reachable the handler returns, the event is
\* allowed and the proxy goes on connecting the player
Attempt(p, u, reachable) ==
    /\ current[u] = NoServer
    /\ inFlight[u] = NoServer
    /\ PreConnect(p, ServerAddress, reachable)
    /\ inFlight' = [inFlight EXCEPT ![u] = IF reachable THEN ServerAddress
                                                      ELSE NoServer]
    /\ UNCHANGED <<mvars, event, plugin, pvars, current>>

\* the connection of player u to the managed server is established: it is
\* the player's current server and the ServerPostConnectEvent is fired
Arrive(p, u) ==
    /\ inFlight[u] = ServerAddress
    /\ inFlight' = [inFlight EXCEPT ![u] = NoServer]
    /\ current' = [current EXCEPT ![u] = ServerAddress]
    /\ PostConnect(p, ServerAddress)
    /\ UNCHANGED <<mvars, event, plugin, pvars>>

\* the connections of the players of Connecting, their disconnects, and the
\* controller's handlers and callbacks
ConnectNext ==
    \/ \E p \in Procs, u \in Connecting, r \in BOOLEAN : Attempt(p, u, r)
    \/ \E p \in Procs, u \in Connecting : Arrive(p, u)
    \/ \E p \in Procs, u \in Connecting : DisconnectFrom(p, u)
    \/ Tick /\ UNCHANGED wvars
    \/ (\E p \in Procs : TryStartLock(p)) /\ UNCHANGED wvars
    \/ (\E p \in Procs, r \in GetResults : TryStartGet(p, r)) /\ UNCHANGED wvars
    \/ (\E p \in Procs, r \in CallResults : TryStartStart(p, r)) /\ UNCHANGED wvars
    \/ (\E p \in Procs, r \in CallResults : TryStartWait(p, r)) /\ UNCHANGED wvars
    \/ (\E p \in Procs : Join(p)) /\ UNCHANGED wvars
    \/ (\E p \in Procs : Leave(p)) /\ UNCHANGED wvars
    \/ (\E i \in Timers : TimerFire(i)) /\ UNCHANGED wvars
    \/ (\E i \in Timers : TimerLock(i)) /\ UNCHANGED wvars
    \/ (\E i \in Timers, r \in GetResults : StopServerGet(i, r)) /\ UNCHANGED wvars
    \/ (\E i \in Timers, r \in CallResults : StopServerStop(i, r)) /\ UNCHANGED wvars
    \/ (\E i \in Timers, r \in CallResults : StopServerWait(i, r)) /\ UNCHANGED wvars

ConnectSpec == Init /\ [][ConnectNext]_vars

(* ============================== claims ================================= *)

StoppedStatuses == {"TERMINATED", "STOPPED"}
InTryStart == {"trystart", "get", "start", "wait"}

\* a client.Start call was issued less than the threshold ago
StartIssuedRecently ==
    lastStartCall # 0 /\ now - lastStartCall < StartupThresholdMinutes

\* a successful start was recorded (its wait completed) less than the
\* threshold ago
StartCompletedRecently ==
    lastStartTime # ZeroTime /\ now - lastStartTime < StartupThresholdMinutes

(* C1: under concurrent connection attempts no two attempts both pass the
   throttle check within one window: an attempt is past the check (about to
   query the status and start) only if no Start call was issued within the
   last startupThreshold.  Violated by the code: a failed Start (C2) leaves
   lastStartTime unset and the next attempt passes the check at once. *)
C1_NoTwoAttemptsPassThrottle ==
    \A p \in Procs : pc[p] = "get" => ~StartIssuedRecently

(* C2: any two successive Start API calls are at least startupThreshold
   apart, whatever the outcome of the earlier one.  Violated by the code:
   lastStartTime is set only after Start and its wait succeeded. *)
C2_StartCallsSpaced ==
    [][ev'.call = "Start" =>
         (lastStartCall = 0 \/ now' - lastStartCall >= StartupThresholdMinutes)]_vars

\* the steps of one connection attempt to the unreachable managed server, when
\* `recent` says that the throttle window is open: not throttled, it queries
\* the status; told Stopped, it issues the Start call, and no step but this
\* one issues a Start call; it is answered only afterwards, with no further call
AttemptStartsOnce(recent) ==
    /\ \A p \in Procs :
        /\ (pc[p] = "trystart" /\ pc'[p] # "trystart" /\ ~recent)
              => (pc'[p] = "get" /\ ev'.call = "Get" /\ ~ev'.denied)
        /\ (pc[p] = "get" /\ pc'[p] # "get" /\ ev'.r \in StoppedStatuses)
              => (pc'[p] = "start" /\ ev'.call = "Start" /\ ~ev'.denied
                  /\ lastStartCall' = now)
        /\ (pc[p] = "start" /\ pc'[p] # "start")
              => (ev'.call # "Start" /\ lastStartCall' = lastStartCall)
        /\ (pc[p] = "wait" /\ pc'[p] # "wait")
              => (pc'[p] = "idle" /\ ev'.denied /\ ev'.call = ""
                  /\ lastStartCall' = lastStartCall)
    /\ (ev'.call = "Start" \/ lastStartCall' # lastStartCall)
          => \E p \in Procs : pc[p] = "get" /\ pc'[p] = "start"

(* C3, as claimed: an attempt that finds the managed server unreachable while
   no Start call was issued within the last startupThreshold and the status
   is Stopped issues exactly one Start call before it is answered.  Violated:
   the window runs from the completion of the start's wait, not from the
   Start call. *)
C3_StartsWhenNoneIssuedRecently == [][AttemptStartsOnce(StartIssuedRecently)]_vars

(* C3, amended: an attempt that finds the managed server unreachable while no
   successful start completed within the last startupThreshold (lastStartTime
   unset or at least the threshold old) and GetStatus reports Stopped issues
   exactly one Start call before it is answered. *)
C3_StartsWhenNoneCompletedRecently ==
    [][AttemptStartsOnce(StartCompletedRecently)]_vars

\* an attempt was answered after its Start call and the wait succeeded
C3_Witness ==
    /\ ev.op = "TryStartReturn"
    /\ ev.res = "started"
    /\ ev.denied
    /\ lastStartCall # 0

(* C4: with a successful start recorded at t0 = lastStartTime, an attempt
   whose throttle check runs before t0 + startupThreshold issues no API call,
   and one whose check runs after t0 + startupThreshold queries the status
   and, the instance still Stopped, issues a new Start call. *)
C4_ThrottleExpires ==
    [][\A p \in Procs :
        /\ (pc[p] = "trystart" /\ pc'[p] # "trystart"
            /\ lastStartTime # ZeroTime
            /\ now < lastStartTime + StartupThresholdMinutes)
              => (pc'[p] = "idle" /\ ev'.res = "throttled" /\ ev'.call = ""
                  /\ lastStartCall' = lastStartCall)
        /\ (pc[p] = "trystart" /\ pc'[p] # "trystart"
            /\ lastStartTime # ZeroTime
            /\ now > lastStartTime + StartupThresholdMinutes)
              => (pc'[p] = "get" /\ ev'.call = "Get")
        /\ (pc[p] = "get" /\ pc'[p] # "get" /\ lastStartTime # ZeroTime
            /\ ev'.r \in StoppedStatuses)
              => (now >= lastStartTime + StartupThresholdMinutes
                  /\ ev'.call = "Start" /\ lastStartCall' = now)]_vars

\* a new Start call is issued later than t0 + startupThreshold
C4_Witness ==
    /\ ev.op = "TryStartGet"
    /\ ev.call = "Start"
    /\ lastStartTime # ZeroTime
    /\ now > lastStartTime + StartupThresholdMinutes

(* C5: every connection attempt that finds the managed server unreachable
   enters tryStartServer and, however tryStartServer ends (started,
   throttled, not stopped, or an error of Get, Start or the wait), is denied
   with startingMessage. *)
C5_UnreachableAlwaysDenied ==
    [][\A p \in Procs :
        /\ (pc[p] = "idle" /\ ev'.op = "PreConnect" /\ ev'.id = ProcId(p)
            /\ ev'.server = ServerAddress /\ ev'.r = "unreachable")
              => pc'[p] = "trystart"
        /\ (pc[p] \in InTryStart /\ pc'[p] \notin InTryStart)
              => (pc'[p] = "idle" /\ ev'.id = ProcId(p) /\ ev'.denied
                  /\ ev'.msg = StartingMessage)]_vars

\* an attempt whose Start call failed was denied
C5_Witness ==
    /\ ev.op = "TryStartReturn"
    /\ ev.res = "start_error"
    /\ ev.denied
    /\ ev.msg = StartingMessage

(* C6: a connection attempt that finds the managed server reachable is
   allowed, issues no API call and changes no field, lock or timer. *)
C6_ReachableAllowed ==
    [][(ev'.op = "PreConnect" /\ ev'.server = ServerAddress
        /\ ev'.r = "reachable")
          => (/\ ~ev'.denied
              /\ ev'.call = ""
              /\ UNCHANGED <<pc, mu, state, timers, lastStartCall, now>>)]_vars

\* a reachable attempt was allowed while an idle timer was armed after a start
C6_Witness ==
    /\ ev.op = "PreConnect"
    /\ ev.server = ServerAddress
    /\ ev.r = "reachable"
    /\ ~ev.denied
    /\ isStarting
    /\ shutdownTimer # NilTimer
    /\ timers[shutdownTimer].st = "armed"

(* C7: a connection-attempt, join or disconnect event for a server other
   than the managed one changes no field, lock or timer, issues no API call
   and denies nothing. *)
C7_OtherServerNoOp ==
    [][(ev'.op \in {"PreConnect", "PostConnect", "Disconnect"}
        /\ ev'.server # ServerAddress)
          => (/\ ~ev'.denied
              /\ ev'.call = ""
              /\ UNCHANGED <<pc, mu, state, timers, lastStartCall, now>>)]_vars

\* a disconnect from another server was ignored while a player was counted
C7_Witness ==
    /\ ev.op = "Disconnect"
    /\ ev.server # ServerAddress
    /\ playerCount = 1

(* C8: playerCount is never negative, for any order and number of joins and
   disconnects. *)
C8_PlayerCountNonNegative == playerCount >= 0

\* a disconnect arrived with no player counted and was clamped
C8_Witness ==
    /\ ev.op = "Leave"
    /\ ev.res = "clamped"
    /\ playerCount = 0

(* C9: while an idle-timer callback has a GetStatus, Stop or wait call
   outstanding, playerCount is 0: the callback's re-check under the lock
   makes it a no-op when players are online. *)
C9_NoIdleStopWhilePlayers ==
    \A i \in Timers : timers[i].st \in {"get", "stop", "wait"} => playerCount = 0

\* a callback that had fired found players online and did nothing
C9_Witness ==
    /\ ev.op = "TimerReturn"
    /\ ev.res = "players_online"
    /\ playerCount > 0

(* C10: once a join for the managed server has been handled, no timer is
   pending: g.shutdownTimer is nil and no timer is armed. *)
C10_JoinCancelsTimers ==
    ev.op = "Join" =>
        /\ shutdownTimer = NilTimer
        /\ \A i \in Timers : timers[i].st # "armed"

\* a join stopped an armed timer
C10_Witness ==
    /\ ev.op = "Join"
    /\ ev.res = "armed"

(* C11: safety shutdown: a successful Start caused by a connection attempt
   is followed, when no player joins, by a Stop call.  Only timer callbacks
   issue Stop calls, so at the return of a successful start a timer must be
   pending.  Violated by the code: tryStartServer arms no timer (Config has
   no noJoinTimeout), and with no join and no disconnect afterwards nothing
   ever issues the Stop call. *)
C11_SafetyShutdownPending ==
    (ev.op = "TryStartReturn" /\ ev.res = "started")
        => \E i \in Timers : timers[i].st \in {"armed", "fired", "get", "stop", "wait"}

\* the horizon of the clock: a timer armed now expires within the run
WithinHorizon == now + IdleTimeoutMinutes <= MaxTime

\* the last player has disconnected from the managed server
LastPlayerLeft ==
    ev.op = "Leave" /\ ev.res = "decremented" /\ playerCount = 0 /\ WithinHorizon

\* the ends of an idle period the claim allows besides the Stop call: the
\* instance is not (seen) Running, or a later disconnect event re-armed the
\* timer beyond the horizon of the clock
IdleStopIssued == ev.call = "Stop"
InstanceNotRunning ==
    /\ ev.op = "TimerReturn"
    /\ ev.res \in {"get_error", "not_running"}
    /\ ev.r # "RUNNING"
RearmedBeyondHorizon == ev.op = "Leave" /\ ~WithinHorizon

(* C12, as claimed: when the last player has disconnected, no join occurs
   during the following idleTimeout and the instance is Running, a Stop call
   is eventually issued.  Violated: a join handled after the timeout has
   elapsed but before the timer's callback has taken the lock makes the
   callback a no-op. *)
C12_IdleStopUnlessJoinInTimeout ==
    LastPlayerLeft ~>
        \/ IdleStopIssued
        \/ InstanceNotRunning
        \/ RearmedBeyondHorizon
        \/ (ev.op = "Join" /\ ev.r # "expired")

(* C12, amended: when the last player has disconnected, no join is handled
   before the idle timer's callback has re-checked playerCount under the
   lock, and the instance is Running, a Stop call is eventually issued. *)
C12_IdleStopUnlessJoin ==
    LastPlayerLeft ~>
        \/ IdleStopIssued
        \/ InstanceNotRunning
        \/ RearmedBeyondHorizon
        \/ ev.op = "Join"

\* the callback of a timer armed by the last disconnect issued the Stop call
C12_Witness ==
    /\ ev.op = "StopServerGet"
    /\ ev.call = "Stop"
    /\ playerCount = 0
    /\ lastActivity + IdleTimeoutMinutes <= now

(* C13: shutdown prevention: a join handled while the idle timer armed by
   the last disconnect has not yet expired cancels that timer (it is no longer
   armed and never fires), no timer is armed and playerCount is 1 afterwards;
   and no Stop call is issued while a player is counted. *)
C13_JoinPreventsShutdown ==
    [][/\ (ev'.op = "Join" /\ shutdownTimer # NilTimer
            /\ timers[shutdownTimer].st = "armed"
            /\ now <= timers[shutdownTimer].deadline)
              => (/\ timers'[shutdownTimer].st = "free"
                  /\ shutdownTimer' = NilTimer
                  /\ \A i \in Timers : timers'[i].st # "armed"
                  /\ playerCount' = 1
                  /\ ev'.call = "")
       /\ playerCount' >= 1 => ev'.call # "Stop"]_vars

\* after a start, a join and the last disconnect, a second join stopped the
\* idle timer before it expired
C13_Witness ==
    /\ ev.op = "Join"
    /\ ev.res = "armed"
    /\ ev.r # "expired"
    /\ playerCount = 1
    /\ isStarting
    /\ \A i \in Timers : timers[i].st = "free"

(* C14: a connection attempt of a player the whitelist has rejected
   (whitelist enabled, UUID not in the entries) never makes the controller
   probe the server or issue a Get or Start call: the controller does nothing
   for the event.  Violated by the code: the event manager calls
   onServerPreConnect after the whitelist's handler has returned, and
   onServerPreConnect reads e.OriginalServer() without looking at
   e.Allowed(). *)
C14_BlockedAttemptIgnored ==
    [][\A p \in Procs :
        (event[p].at \in {"controller", "trystart"} /\ ~event[p].allowed
         /\ ev'.id = ProcId(p))
          => (/\ ev'.r \notin {"reachable", "unreachable"}
              /\ ev'.call = ""
              /\ pc'[p] = "idle"
              /\ UNCHANGED <<mu, state, lastStartCall>>)]_vars

\* the contexts with a blocking API call (Get, Start, Stop, an operation's
\* wait) outstanding
ProcsCalling == {p \in Procs : pc[p] \in {"get", "start", "wait"}}
TimersCalling == {i \in Timers : timers[i].st \in {"get", "stop", "wait"}}

(* C15: g.mu is never held while a blocking API call is outstanding, so that
   no join or disconnect handler waits for the lock for the duration of such
   a call.  Violated by the code: tryStartServer and the timer's callback
   (through stopServer) hold g.mu from their first line to their return,
   across Get, Start, Stop and the waits. *)
C15_NoLockAcrossCalls ==
    (ProcsCalling # {} \/ TimersCalling # {}) => mu = Unlocked

\* the timers outstanding: armed, or with a callback that has not finished
Outstanding == {i \in Timers : timers[i].st \in {"armed", "fired", "get", "stop", "wait"}}

(* C16: every step that reads or writes playerCount, lastActivity,
   lastStartTime, isStarting or shutdownTimer, or arms or stops a timer, is
   taken by the context that holds g.mu (or takes it, the lock being free);
   the context inside a critical section that spans API calls is the holder,
   so no two contexts are inside at once. *)
C16_AccessUnderLock ==
    [][/\ (\/ state' # state
            \/ (timers' # timers /\ ev'.op # "TimerFire")
            \/ ev'.op \in {"Join", "Leave", "TryStartLock", "TimerLock"}
            \/ ev'.res \in {"throttled", "players_online", "started"})
          => mu \in {Unlocked, ev'.id}
       /\ \A p \in Procs :
            pc'[p] \in {"get", "start", "wait"} => mu' = ProcId(p)
       /\ \A i \in Timers :
            timers'[i].st \in {"get", "stop", "wait"} => mu' = TimerId(i)]_vars

\* a join was handled after it had waited for the lock, while a timer's
\* callback is waiting for it too
C16_Witness ==
    /\ ev.op = "Join"
    /\ \E i \in Timers : timers[i].st = "fired"
    /\ \E p \in Procs : pc[p] = "disc"
    /\ lastStartTime = now

(* C17: a timer that has been cancelled (stopped by a join, or replaced when
   a new timer was armed) never performs its stop action afterwards.
   Violated by the code: Stop() has no effect on a callback that has already
   started; after a join and a disconnect the callback finds playerCount = 0
   and calls stopServer. *)
C17_CancelledTimerNeverStops ==
    \A i \in Timers : timers[i].cancelled => timers[i].st \notin {"get", "stop", "wait"}

(* C18, as claimed: at most one timer is outstanding (armed, or with its
   callback not yet finished).  Violated: Stop() does not end a callback that
   has already started, which is still outstanding when the next timer is
   armed. *)
C18_OneTimerOutstanding == Cardinality(Outstanding) <= 1

(* C18, amended: at most one timer that has not been cancelled is outstanding
   (armed, or with its callback not yet finished), the one g.shutdownTimer
   refers to, and at most one timer is armed; arming a timer first stops the
   existing timer. *)
C18_OneLiveTimerOutstanding ==
    /\ [](/\ Cardinality({i \in Outstanding : ~timers[i].cancelled}) <= 1
          /\ \A i \in Outstanding : ~timers[i].cancelled => shutdownTimer = i
          /\ Cardinality({i \in Timers : timers[i].st = "armed"}) <= 1)
    /\ [][(ev'.op = "Leave" /\ playerCount' = 0 /\ shutdownTimer # NilTimer)
            => (/\ timers[shutdownTimer].st \in {"fired", "get", "stop", "wait"}
                      => (/\ shutdownTimer' # shutdownTimer
                          /\ timers'[shutdownTimer].cancelled)
                /\ timers'[shutdownTimer'].st = "armed"
                /\ timers'[shutdownTimer'].deadline = now + IdleTimeoutMinutes)]_vars

\* a disconnect armed a timer while the callback of the timer it replaced
\* had started and not finished
C18_Witness ==
    /\ ev.op = "Leave"
    /\ shutdownTimer # NilTimer
    /\ timers[shutdownTimer].st = "armed"
    /\ \E i \in Timers : timers[i].st = "fired" /\ timers[i].cancelled

\* config.yml cannot be read, or lacks a required setting
SettingMissing ==
    \/ ~plugin.readable
    \/ \E k \in RequiredKeys : plugin.file[k] \in {"missing", ""}

(* C19: when a required setting (projectId, zone, instanceName,
   serverAddress) is missing or empty, or config.yml cannot be read,
   Plugin.Init fails and the controller never runs: no handler is subscribed,
   so no step of the controller is ever taken and no API call is made. *)
C19_NoRunWithoutConfig ==
    /\ []((plugin.status # "new" /\ SettingMissing) => plugin.status = "failed")
    /\ [][plugin'.status # "running"
            => (ev'.op = "PluginInit" /\ ev'.call = ""
                /\ UNCHANGED <<pc, mu, state, timers, lastStartCall>>)]_vars

\* Plugin.Init failed on a config.yml whose serverAddress is empty
C19_Witness ==
    /\ plugin.status = "failed"
    /\ plugin.readable
    /\ plugin.file["serverAddress"] = ""
    /\ \A k \in RequiredKeys \ {"serverAddress"} : plugin.file[k] = "set"
    /\ ev.res = "config_error"

\* an add (a remove) of uuid has been called and has not returned
InFlight(cmd, uuid) ==
    \E c \in Cmds : wpc[c].st # "idle" /\ wpc[c].cmd = cmd /\ wpc[c].uuid = uuid

(* C20: the whitelist denies a connection attempt, with the kick message, if
   and only if it is enabled and the player's UUID is not in the entries when
   the check runs; and the check sees every add and remove that has returned:
   a player whose latest returned command was an add (and whom no remove in
   flight concerns) passes, one whose latest was a remove (or who was never
   added; no add in flight) is denied. *)
C20_DeniedIffNotWhitelisted ==
    ev.op = "OnPreConnect" =>
        /\ ev.denied <=> (enabled /\ ev.player \notin entries)
        /\ ev.msg = IF ev.denied THEN KickMessage ELSE ""
        /\ event[ev.id[2]].allowed = ~ev.denied
        /\ (enabled /\ ev.player \in returned /\ ~InFlight("remove", ev.player))
              => ~ev.denied
        /\ (enabled /\ ev.player \notin returned /\ ~InFlight("add", ev.player))
              => ev.denied

\* a player still in the whitelist file was denied after a remove that
\* returned with a save error
C20_Witness ==
    /\ ev.op = "OnPreConnect"
    /\ ev.denied
    /\ ev.player \in whitelistFile
    /\ ev.player \notin returned
    /\ \A c \in Cmds : wpc[c] = IdleCmd

\* the steps of the /whitelist commands
CommandOps ==
    {"WhitelistAddCommand", "WhitelistRemoveCommand", "WhitelistListCommand",
     "RemoveFind", "UpdateLock", "Save"}

(* C21: only operators can manage the whitelist: a /whitelist add, remove or
   list command issued by a source that is not a player, or by a player who is
   not in the configured operators, is answered with a message that depends
   on the source alone (it shows no entry and says nothing of the target),
   the command has returned with that answer and the entries are unchanged;
   and every change of the entries is a step of a command issued by an
   operator. *)
C21_OnlyOperatorsManage ==
    [][/\ (ev'.op \in CommandOps /\ ev'.player \notin Operators) =>
            /\ ev'.res = (IF ev'.player \in UUIDs THEN "not_permitted"
                                                 ELSE "not_player")
            /\ ev'.shown = {}
            /\ wpc'[ev'.id[2]] = IdleCmd
            /\ entries' = entries
            /\ whitelistFile' = whitelistFile
       /\ (entries' # entries \/ whitelistFile' # whitelistFile) =>
            /\ ev'.op \in CommandOps
            /\ ev'.player \in Operators
            /\ wpc[ev'.id[2]].source \in Operators]_vars

\* a player who is not an operator asked for the list of a whitelist that is
\* not empty and was refused
C21_Witness ==
    /\ ev.op = "WhitelistListCommand"
    /\ ev.player \notin Operators
    /\ ev.res = "not_permitted"
    /\ entries # {}

(* C22: the /ping cooldown holds per player under concurrency: whenever a
   /ping of a player returns a ping result, the player's previous ping result
   (the time the cooldowns entry held) is at least cooldownDuration old; every
   other invocation returns the cooldown message. *)
C22_OnePingPerWindow ==
    [][(ev'.op = "PingUpdate" /\ ev'.res = "ping_result") =>
            \/ cooldowns[ev'.player] = ZeroTime
            \/ now' - cooldowns[ev'.player] >= CooldownDuration]_vars

(* C23: tryStart issues a Start call only if the GetStatus call made in the
   same invocation succeeded and returned Stopped/TERMINATED: a Start call is
   issued only at the return of client.Get to the attempt that called it,
   with such a status; when the status is Running, Starting or unknown, or
   the call failed, tryStart returns and no Start call is issued. *)
C23_StartOnlyWhenSeenStopped ==
    [][/\ (ev'.call = "Start" \/ lastStartCall' # lastStartCall) =>
            /\ ev'.op = "TryStartGet"
            /\ ev'.r \in StoppedStatuses
            /\ \E p \in Procs : /\ ev'.id = ProcId(p)
                                 /\ pc[p] = "get" /\ pc'[p] = "start"
                                 /\ mu = ProcId(p)
       /\ \A p \in Procs :
            (pc[p] = "get" /\ pc'[p] # "get" /\ ev'.r \notin StoppedStatuses) =>
                /\ pc'[p] = "idle"
                /\ ev'.call = ""
                /\ lastStartCall' = lastStartCall
                /\ ev'.res = (IF ev'.r = "error" THEN "get_error"
                                                 ELSE "not_stopped")]_vars

\* client.Get told an attempt that the instance is TERMINATED and the attempt
\* called client.Start
C23_Witness ==
    /\ ev.op = "TryStartGet"
    /\ ev.r = "TERMINATED"
    /\ ev.call = "Start"
    /\ lastStartCall = now

(* C24: after a tryStart whose Start call and operation wait both succeed,
   lastStartTime is the completion time, isStarting is true and a safety
   timer is pending (armed by that return, not yet run).  Violated by the
   code: the start is recorded, but no timer is armed (see C11). *)
C24_StartRecordedSafetyArmed ==
    (ev.op = "TryStartReturn" /\ ev.res = "started") =>
        /\ lastStartTime = now
        /\ isStarting
        /\ \E i \in Timers : timers[i].st = "armed" /\ timers[i].deadline > now

\* the outcomes of a failed tryStartServer
StartFailures == {"get_error", "start_error", "wait_error"}

(* C25: when tryStart fails (GetStatus error, Start error, or error or
   timeout of the wait for the start operation), lastStartTime, isStarting,
   playerCount and the timers are as before the call: from its Lock to its
   failing return every step leaves these fields as they are (the attempt
   holds g.mu, so no handler changes them meanwhile; an armed timer may run
   out, no timer is armed or stopped), the error is reported to the player,
   and the throttle check of the next attempt answers as it did before. *)
C25_FailedStartLeavesState ==
    [][\A p \in Procs :
        /\ (pc[p] = "trystart" /\ pc'[p] = "get") =>
                state' = state /\ timers' = timers
        /\ (pc[p] \in {"get", "start", "wait"} /\ ev'.res # "started") =>
                /\ mu = ProcId(p)
                /\ state' = state
                /\ \A i \in Timers :
                        \/ timers'[i] = timers[i]
                        \/ /\ timers[i].st = "armed"
                           /\ timers'[i] = [timers[i] EXCEPT !.st = "fired"]
        /\ (ev'.id = ProcId(p) /\ ev'.res \in StartFailures) =>
                /\ pc[p] \in {"get", "start", "wait"}
                /\ pc'[p] = "idle"
                /\ mu' = Unlocked
                /\ timers' = timers
                /\ ev'.denied
                /\ Throttled(lastStartTime', now', StartupThresholdMinutes)
                     = Throttled(lastStartTime, now, StartupThresholdMinutes)]_vars

\* the wait for the start operation failed while an idle timer was pending
\* and no start had been recorded: nothing is recorded and the timer is
\* still pending
C25_Witness ==
    /\ ev.op = "TryStartReturn"
    /\ ev.res = "wait_error"
    /\ lastStartTime = ZeroTime
    /\ ~isStarting
    /\ shutdownTimer # NilTimer
    /\ timers[shutdownTimer].st = "armed"

(* C26: a throttled tryStart (lastStartTime set and now - lastStartTime <
   startupThreshold at its check) issues no API call at all, neither Get nor
   Start, changes no state (the fields, the timers; the lock is free again)
   and returns no error. *)
C26_ThrottledIsNoOp ==
    [][\A p \in Procs :
        (/\ pc[p] = "trystart" /\ pc'[p] # "trystart"
         /\ lastStartTime # ZeroTime
         /\ now - lastStartTime < StartupThresholdMinutes)
          => /\ pc'[p] = "idle"
             /\ ev'.id = ProcId(p)
             /\ ev'.res = "throttled"
             /\ ev'.call = ""
             /\ ~ev'.err
             /\ state' = state
             /\ timers' = timers
             /\ lastStartCall' = lastStartCall
             /\ mu' = Unlocked]_vars

\* an attempt was throttled in the window of a start that is still starting
C26_Witness ==
    /\ ev.op = "TryStartReturn"
    /\ ev.res = "throttled"
    /\ ~ev.err
    /\ isStarting
    /\ now - lastStartTime < StartupThresholdMinutes

(* C27: isStarting is true exactly from a successful start until the next
   join for the managed server or the next stop by a timer: it becomes true
   only at the return of a successful start, and does so then; it becomes
   false only at a join or at a Stop call; and once a join has been handled
   it is false.  Violated by the code: g.isStarting is assigned once, true,
   and no join resets it. *)
C27_IsStartingUntilJoin ==
    [][/\ (~isStarting /\ isStarting') => ev'.res = "started"
       /\ ev'.res = "started" => isStarting'
       /\ (isStarting /\ ~isStarting') => (ev'.op = "Join" \/ ev'.call = "Stop")
       /\ ev'.op = "Join" => ~isStarting']_vars

\* the timers that are armed: their duration has not run out
Armed(tm) == {i \in Timers : tm[i].st = "armed"}

(* C29: after any disconnect for the managed server that leaves playerCount
   at 0 (a clamped disconnect arriving when it is already 0 included),
   exactly one idle timer is pending (armed), it is the one g.shutdownTimer
   refers to and it is fresh: not cancelled and with the full idleTimeout
   remaining; a disconnect that leaves playerCount > 0 arms no timer and
   leaves the timers as they are. *)
C29_DisconnectArmsOneFreshTimer ==
    [][ev'.op = "Leave" =>
        IF playerCount <= 1
        THEN /\ playerCount' = 0
             /\ shutdownTimer' # NilTimer
             /\ Armed(timers') = {shutdownTimer'}
             /\ ~timers'[shutdownTimer'].cancelled
             /\ timers'[shutdownTimer'].deadline = now' + IdleTimeoutMinutes
        ELSE /\ playerCount' = playerCount - 1
             /\ timers' = timers
             /\ shutdownTimer' = shutdownTimer]_vars

\* a clamped disconnect, later than the first minute, armed a timer with the
\* full idleTimeout while the callback of an earlier timer was waiting
C29_Witness ==
    /\ ev.op = "Leave"
    /\ ev.res = "clamped"
    /\ now > 1
    /\ Armed(timers) = {shutdownTimer}
    /\ timers[shutdownTimer].deadline = now + IdleTimeoutMinutes
    /\ \E i \in Timers : timers[i].st = "fired"

(* C30: in every reachable state, playerCount > 0 implies that no idle timer
   is pending: g.shutdownTimer is nil and no timer is armed. *)
C30_ActiveHasNoTimer ==
    playerCount > 0 => (shutdownTimer = NilTimer /\ Armed(timers) = {})

\* after a start, two joins and a disconnect one player is left and no timer
\* is pending
C30_Witness ==
    /\ ev.op = "Leave"
    /\ ev.res = "decremented"
    /\ playerCount = 1
    /\ shutdownTimer = NilTimer
    /\ lastStartTime # ZeroTime

(* C31: stopServer issues a Stop call only if the Get call made in the same
   invocation succeeded and returned RUNNING: a Stop call is issued only at
   the return of client.Get to the callback that called it, with that status;
   for any other status, or when the call failed, the callback returns and no
   Stop call is issued. *)
C31_StopOnlyWhenSeenRunning ==
    [][/\ ev'.call = "Stop" =>
            /\ ev'.op = "StopServerGet"
            /\ ev'.r = "RUNNING"
            /\ \E i \in Timers : /\ ev'.id = TimerId(i)
                                  /\ timers[i].st = "get"
                                  /\ timers'[i].st = "stop"
                                  /\ mu = TimerId(i)
       /\ \A i \in Timers :
            (timers[i].st = "get" /\ timers'[i].st # "get" /\ ev'.r # "RUNNING") =>
                /\ timers'[i].st \in {"done", "free"}
                /\ mu' = Unlocked
                /\ ev'.call = ""
                /\ ev'.res = (IF ev'.r = "error" THEN "get_error"
                                                 ELSE "not_running")]_vars

\* after a recorded start, client.Get told a callback that the instance is
\* RUNNING and the callback called client.Stop
C31_Witness ==
    /\ ev.op = "StopServerGet"
    /\ ev.r = "RUNNING"
    /\ ev.call = "Stop"
    /\ lastStartTime # ZeroTime

\* the outcomes of a failed stopServer
StopFailures == {"get_error", "stop_error", "wait_error"}

(* C32: a failed stop is not retried automatically: after the stopServer of
   an idle timer's callback has returned an error (of Get, Stop or the wait),
   no further Stop call is issued until a later disconnect arms a new timer.
   Only timer callbacks issue Stop calls and only a disconnect arms a timer,
   so when a stop has failed no other timer is outstanding (armed, or with
   its callback started).  Violated by the code: the callback of a timer that
   a disconnect replaced after it had started (C17) runs stopServer and
   fails, and the timer armed by that earlier disconnect is still to fire. *)
C32_FailedStopNotRetried ==
    (ev.op = "TimerReturn" /\ ev.res \in StopFailures) => Outstanding = {}

\* the players whose current server is the managed server
OnManaged == {u \in UUIDs : current[u] = ServerAddress}

(* C33: playerCount equals the number of players whose current server is the
   managed server, for every sequence of joins, switches between the managed
   server and other servers, and disconnects (stated when every event has
   been handled).  Violated by the code: a player who leaves the managed
   server by switching to another server is still counted. *)
C33_PlayerCountIsPlayersOnManaged ==
    (\A p \in Procs : pc[p] = "idle") => playerCount = Cardinality(OnManaged)

\* the time at which timer i was armed
ArmedAt(i) == timers[i].deadline - IdleTimeoutMinutes

(* C34: a successful start is never undone by an idle timer that was already
   pending when the start was issued: after tryStartServer has succeeded, no
   callback issues a Stop call until some player has joined and then
   disconnected.  A timer that is not cancelled has seen no join and no
   disconnect since it was armed, so a Stop call of such a timer comes from a
   timer armed no earlier than the latest recorded start.  Violated by the
   code: tryStartServer does not stop g.shutdownTimer. *)
C34_StartNotUndoneByPendingTimer ==
    [][\A i \in Timers :
        (/\ ev'.call = "Stop"
         /\ ev'.id = TimerId(i)
         /\ ~timers[i].cancelled
         /\ lastStartTime # ZeroTime)
          => ArmedAt(i) >= lastStartTime]_vars

(* C35: between a connection attempt that the controller allowed because the
   server was reachable and the join of that same player, no callback issues
   a Stop call: no Stop call is issued while a player's allowed connection to
   the managed server is being established.  Violated by the code: an
   allowed attempt leaves the pending idle timer alone. *)
C35_NoStopUnderConnectingPlayer ==
    [][ev'.call = "Stop" => \A u \in UUIDs : inFlight[u] # ServerAddress]_vars

(* C36: the controller's API call sequences are serialised: at any instant
   at most one Get, Start, Stop or wait of the controller is outstanding, its
   caller holds g.mu, and so a start sequence (tryStartServer) and a stop
   sequence (a timer's callback) never overlap. *)
C36_ApiCallsSerialised ==
    /\ Cardinality(ProcsCalling) + Cardinality(TimersCalling) <= 1
    /\ \A p \in ProcsCalling : mu = ProcId(p)
    /\ \A i \in TimersCalling : mu = TimerId(i)

\* a connection attempt waits to enter tryStartServer while a callback's
\* Stop call is outstanding
C36_Witness ==
    /\ \E p \in Procs : pc[p] = "trystart"
    /\ \E i \in Timers : timers[i].st = "stop"
    /\ ev.op = "PreConnect"

\* the handlers and callbacks waiting in g.mu.Lock()
WaitingForLock ==
    {ProcId(p) : p \in {q \in Procs : pc[q] \in {"trystart", "join", "disc"}}}
        \cup {TimerId(i) : i \in {j \in Timers : timers[j].st = "fired"}}

(* C37: the controller is deadlock-free: g.mu is held only by a handler or a
   callback that is inside an API call (never by one that has returned, and
   never by one that waits for the lock itself), every return of a handler or
   callback (throttled, skipped and error returns included) leaves the lock
   free, and, the external calls returning, a held lock is eventually
   released. *)
C37_LockAlwaysReleased ==
    /\ [](/\ \A p \in Procs : mu = ProcId(p) => p \in ProcsCalling
          /\ \A i \in Timers : mu = TimerId(i) => i \in TimersCalling
          /\ mu \notin WaitingForLock
          /\ (ev.op \in {"TryStartReturn", "TimerReturn", "Join", "Leave"})
                => mu = Unlocked)
    /\ (mu # Unlocked) ~> (mu = Unlocked)

\* tryStartServer returned the error of client.Start and released the lock
\* a join was waiting for
C37_Witness ==
    /\ ev.op = "TryStartReturn"
    /\ ev.res = "start_error"
    /\ mu = Unlocked
    /\ \E p \in Procs : pc[p] = "join"

\* no start is under way, and the throttle window of the latest recorded
\* start, if any, ends within the horizon of the clock
StartDue ==
    /\ \A p \in Procs : pc[p] \notin {"start", "wait"}
    /\ lastStartTime # ZeroTime => lastStartTime + StartupThresholdMinutes <= MaxTime

(* C38: starting is never suppressed forever: if the instance stays stopped
   and unreachable, the API calls return, time advances and connection
   attempts to the managed server keep arriving, then from every state (in
   which the throttle window can still run out) a Start call is eventually
   issued. *)
C38_StartEventuallyIssued == StartDue ~> (ev.call = "Start")

\* a Start call was issued after the throttle window of an earlier recorded
\* start had run out
C38_Witness ==
    /\ ev.call = "Start"
    /\ lastStartTime # ZeroTime
    /\ now - lastStartTime >= StartupThresholdMinutes
    /\ isStarting

(* C39: a whitelist add or remove that returns an error (the file could not
   be written) leaves the in-memory whitelist unchanged: when w.add or
   w.remove has returned, with or without an error, the entries in memory and
   the entries in the whitelist file are the same set. *)
C39_EntriesMatchFileAfterUpdate ==
    ev.op = "Save" => entries = whitelistFile

====
